---- MODULE Spec2Model ----
(***************************************************************************)
(* Model of the useRasa hook of react-rasa-hook (src/src/main.tsx): the    *)
(* connection status, the session reference, the message history and the   *)
(* quick-reply click callbacks.                                            *)
(*                                                                         *)
(* The history is a JavaScript array of object references: `msgs` is the   *)
(* heap of message objects created so far (keyed by their id) and          *)
(* `history` the sequence of ids currently in the array.  A message that   *)
(* was filtered out of the history lives on in `msgs`, as it does in the   *)
(* closures of its onClick callbacks.                                      *)
(* Strings whose characters the code inspects (payloads, texts) are tuples *)
(* of characters; session tokens are opaque and stay TLA+ strings.         *)
(* Every socket handler and every call of utter / onClick is one action;   *)
(* setHistory, with which the application may replace the history by any   *)
(* value, is not modelled.                                                 *)
(* `wire` is what crossed the socket that the properties speak about: the  *)
(* session_confirm events handled and every emit, in order.  `lastOp`      *)
(* records the handler that ran last and the order of its effects.         *)
(***************************************************************************)
EXTENDS Integers, Sequences, FiniteSets, TLC

VARIABLES status, history, msgs, nextId, socketRef, sessionRef, link,
          sendOnConnect, wire, lastOp, nsteps

vars == <<status, history, msgs, nextId, socketRef, sessionRef, link,
          sendOnConnect, wire, lastOp, nsteps>>

\* ---- bounds ----
MaxSteps == 5     \* handler invocations in one run
MaxBot == 2       \* bot_uttered events in one run

\* ---- value domains ----
Connecting == "connecting"
Connected == "connected"
WaitingForResponse == "waitingForResponse"
Disconnected == "disconnected"
ErrorStatus == "error"
RasaStatus == {Connecting, Connected, WaitingForResponse, Disconnected, ErrorStatus}

TypeAttachment == "attachment"
TypeText == "text"
TypeQuickReply == "quick_reply"
TypeUnknown == "unknown"

NoSession == "<undefined>"            \* sessionRef.current before any confirm
Tokens == {"abc", "xyz"}              \* session ids a server may confirm

NoSocket == "none"                    \* socketRef.current before the effect ran
SocketOpen == "open"                  \* socket created by io(...)
SocketClosed == "closed"              \* after socket.disconnect()

Slash == "/"
CmdPayload == <<"/", "y">>
TxtPayload == <<"n", "o">>
Payloads == {CmdPayload, TxtPayload}  \* quick-reply payloads
Hello == <<"h", "i">>
UtterPayloads == {Hello}              \* what the application utters
Greet == <<"/", "g">>
\* the sendOnConnect parameter: not given, the empty string, "/g"
SendOnConnectValues ==
    {[given |-> FALSE, value |-> <<>>], [given |-> TRUE, value |-> <<>>],
     [given |-> TRUE, value |-> Greet]}

\* the quick_replies arrays a bot message may carry: no, one or two options
QRLists ==
    {<<>>, <<CmdPayload>>, <<TxtPayload>>,
     <<CmdPayload, CmdPayload>>, <<CmdPayload, TxtPayload>>,
     <<TxtPayload, CmdPayload>>, <<TxtPayload, TxtPayload>>}

\* inbound bot_uttered payloads: each of attachment, quick_replies, text
\* present or absent
BotPayloads ==
    {[hasAttachment |-> a, hasText |-> t, hasQR |-> FALSE, quick_replies |-> <<>>] :
        a \in BOOLEAN, t \in BOOLEAN}
    \cup
    {[hasAttachment |-> a, hasText |-> t, hasQR |-> TRUE, quick_replies |-> q] :
        a \in BOOLEAN, t \in BOOLEAN, q \in QRLists}

\* ---- pure functions ----
\* mutant: every non-empty payload is taken for a command
StartsWithSlash_nonEmpty(p) == Len(p) > 0

\* mutant: every payload is taken for a command
StartsWithSlash_always(p) == TRUE

\* String.prototype.startsWith("/")
StartsWithSlash(p) == Len(p) > 0 /\ p[1] = Slash

\* JavaScript truthiness of the optional string parameter sendOnConnect
Truthy(s) == s.given /\ Len(s.value) > 0

\* mutant: the confirmed id is not stored
confirmSession_stale(old, sessionID) == old

\* sessionRef.current = sessionID
confirmSession(old, sessionID) == sessionID

\* mutant: the session id is left out of the message
SessionIdOf_dropped(sess) == ""

\* sessionRef.current || ""
SessionIdOf(sess) == IF sess = NoSession \/ sess = "" THEN "" ELSE sess

\* mutant: text is tested before attachment and quick_replies
getType_textFirst(message) ==
    IF message.hasText THEN TypeText
    ELSE IF message.hasAttachment THEN TypeAttachment
    ELSE IF message.hasQR THEN TypeQuickReply
    ELSE TypeUnknown

getType(message) ==
    IF message.hasAttachment THEN TypeAttachment
    ELSE IF message.hasQR THEN TypeQuickReply
    ELSE IF message.hasText THEN TypeText
    ELSE TypeUnknown

\* mutant: a missing id yields the last index (as history.at(-1) would)
findIndex_last(h, id) ==
    IF \E k \in 1..Len(h) : h[k] = id
    THEN CHOOSE k \in 1..Len(h) : h[k] = id /\ \A j \in 1..(k - 1) : h[j] # id
    ELSE Len(h)

\* history.findIndex((v) => v.id === id); 0 stands for -1
findIndex(h, id) ==
    IF \E k \in 1..Len(h) : h[k] = id
    THEN CHOOSE k \in 1..Len(h) : h[k] = id /\ \A j \in 1..(k - 1) : h[j] # id
    ELSE 0

\* history.filter((r) => r.id !== id)
RECURSIVE filterOut(_, _)
filterOut(h, id) ==
    IF h = <<>> THEN <<>>
    ELSE IF Head(h) = id THEN filterOut(Tail(h), id)
    ELSE <<Head(h)>> \o filterOut(Tail(h), id)

\* mutant: an earlier mark is kept
markClicked_keeps(opts, i1) ==
    [i2 \in 1..Len(opts) |-> [opts[i2] EXCEPT !.clicked = (@ \/ i1 = i2)]]

\* quick_replies.map((q2, i2) => ({...q2, clicked: i1 === i2}))
markClicked(opts, i1) ==
    [i2 \in 1..Len(opts) |-> [opts[i2] EXCEPT !.clicked = (i1 = i2)]]

\* mutant: the user's message is flagged as received
userMessage_received(message) ==
    [type |-> TypeText, received |-> TRUE, hasText |-> TRUE, text |-> message,
     hasAttachment |-> FALSE, hasQR |-> FALSE, quick_replies |-> <<>>,
     clicked |-> FALSE]

\* the object utter appends to the history
userMessage(message) ==
    [type |-> TypeText, received |-> FALSE, hasText |-> TRUE, text |-> message,
     hasAttachment |-> FALSE, hasQR |-> FALSE, quick_replies |-> <<>>,
     clicked |-> FALSE]

\* mutant: callbacks are attached only to messages classified quick_reply
botResponse_callbacksByType(message) ==
    [type |-> getType(message), received |-> TRUE, hasText |-> message.hasText,
     text |-> IF message.hasText THEN Hello ELSE <<>>,
     hasAttachment |-> message.hasAttachment, hasQR |-> message.hasQR,
     quick_replies |-> [i \in 1..Len(message.quick_replies) |->
                          [payload |-> message.quick_replies[i], clicked |-> FALSE,
                           onClick |-> (getType(message) = TypeQuickReply)]],
     clicked |-> FALSE]

\* mutant: the bot's message is not flagged as received
botResponse_notReceived(message) ==
    [type |-> getType(message), received |-> FALSE, hasText |-> message.hasText,
     text |-> IF message.hasText THEN Hello ELSE <<>>,
     hasAttachment |-> message.hasAttachment, hasQR |-> message.hasQR,
     quick_replies |-> [i \in 1..Len(message.quick_replies) |->
                          [payload |-> message.quick_replies[i], clicked |-> FALSE,
                           onClick |-> TRUE]],
     clicked |-> FALSE]

\* the response object the bot_uttered handler builds
botResponse(message) ==
    [type |-> getType(message), received |-> TRUE, hasText |-> message.hasText,
     text |-> IF message.hasText THEN Hello ELSE <<>>,
     hasAttachment |-> message.hasAttachment, hasQR |-> message.hasQR,
     quick_replies |-> [i \in 1..Len(message.quick_replies) |->
                          [payload |-> message.quick_replies[i], clicked |-> FALSE,
                           onClick |-> TRUE]],
     clicked |-> FALSE]

\* ---- the wire ----
InConfirm(t) ==
    [dir |-> "in", event |-> "session_confirm", session_id |-> t,
     message |-> <<>>, via |-> "server"]
\* mutant: the session_request never carries the known token
OutRequest_noToken(sess) ==
    [dir |-> "out", event |-> "session_request", session_id |-> NoSession,
     message |-> <<>>, via |-> "connect"]

OutRequest(sess) ==
    [dir |-> "out", event |-> "session_request", session_id |-> sess,
     message |-> <<>>, via |-> "connect"]
OutUttered(sess, message, via) ==
    [dir |-> "out", event |-> "user_uttered", session_id |-> SessionIdOf(sess),
     message |-> message, via |-> via]

\* socketRef.current?.emit("user_uttered", socketIOMessage)
utterEmit(w, sock, sess, message, via) ==
    IF sock = NoSocket THEN w ELSE Append(w, OutUttered(sess, message, via))

\* mutant: utter leaves the status error alone
utterStatus_errorSticky(s) == IF s = ErrorStatus THEN ErrorStatus ELSE WaitingForResponse

\* setStatus(RasaStatus.waitingForResponse) in utter
utterStatus(s) == WaitingForResponse

\* mutant: the message is added in front
appendMessage_prepends(h, id) == <<id>> \o h

\* mutant: the message is added twice
appendMessage_twice(h, id) == h \o <<id, id>>

\* setHistory((history) => [...history, message])
appendMessage(h, id) == Append(h, id)

\* uuidv4(): an id no earlier message has; n - 1 ids have been drawn before
uuidv4(n) == n

\* the effects of utter, in program order
utterSteps(sock) ==
    (IF sock = NoSocket THEN <<>> ELSE <<"emit">>) \o <<"setStatus", "setHistory:append">>

\* the record of a handler run: its name, the message and option it was about,
\* whether it threw, its effects in program order, the status it started in
Op(name, target, opt, threw, steps) ==
    [name |-> name, target |-> target, opt |-> opt, threw |-> threw, steps |-> steps,
     from |-> status]

\* one more handler has run
Tick == nsteps < MaxSteps /\ nsteps' = nsteps + 1

\* ---- initial state: the first render, before the effect has run ----
Init ==
    /\ status = Disconnected
    /\ history = <<>>
    /\ msgs = <<>>
    /\ nextId = 1
    /\ socketRef = NoSocket
    /\ sessionRef = NoSession
    /\ link = FALSE
    /\ sendOnConnect \in SendOnConnectValues
    /\ wire = <<>>
    /\ lastOp = Op("init", 0, 0, FALSE, <<>>)
    /\ nsteps = 0

\* ---- actions ----
\* the body of useEffect: create the socket, register the handlers
Mount ==
    /\ Tick
    /\ socketRef = NoSocket
    /\ socketRef' = SocketOpen
    /\ status' = Connecting
    /\ lastOp' = Op("mount", 0, 0, FALSE, <<"setStatus">>)
    /\ UNCHANGED <<history, msgs, nextId, sessionRef, link, sendOnConnect, wire>>

\* socket.on("connect")
Connect ==
    /\ Tick
    /\ socketRef = SocketOpen /\ ~link
    /\ link' = TRUE
    /\ status' = Connected
    /\ wire' = Append(wire, OutRequest(sessionRef))
    /\ lastOp' = Op("connect", 0, 0, FALSE, <<"setStatus", "emit">>)
    /\ UNCHANGED <<history, msgs, nextId, socketRef, sessionRef, sendOnConnect>>

\* utter(message), called by the application
Utter(message) ==
    /\ Tick
    /\ wire' = utterEmit(wire, socketRef, sessionRef, message, "utter")
    /\ status' = utterStatus(status)
    /\ msgs' = Append(msgs, userMessage(message))
    /\ history' = appendMessage(history, uuidv4(nextId))
    /\ nextId' = nextId + 1
    /\ lastOp' = Op("utter", nextId, 0, FALSE, utterSteps(socketRef))
    /\ UNCHANGED <<socketRef, sessionRef, link, sendOnConnect>>

\* mutant: the greeting is sent for the first confirm only
SessionConfirm_once(sessionID) ==
    /\ Tick
    /\ socketRef = SocketOpen /\ link
    /\ sessionRef' = confirmSession(sessionRef, sessionID)
    /\ IF Truthy(sendOnConnect) /\ sessionRef = NoSession
       THEN /\ wire' = utterEmit(Append(wire, InConfirm(sessionID)), socketRef,
                                 confirmSession(sessionRef, sessionID),
                                 sendOnConnect.value, "sendOnConnect")
            /\ status' = utterStatus(status)
            /\ msgs' = Append(msgs, userMessage(sendOnConnect.value))
            /\ history' = appendMessage(history, uuidv4(nextId))
            /\ nextId' = nextId + 1
            /\ lastOp' = Op("session_confirm", nextId, 0, FALSE,
                            <<"setSession">> \o utterSteps(socketRef))
       ELSE /\ wire' = Append(wire, InConfirm(sessionID))
            /\ lastOp' = Op("session_confirm", 0, 0, FALSE, <<"setSession">>)
            /\ UNCHANGED <<status, msgs, history, nextId>>
    /\ UNCHANGED <<socketRef, link, sendOnConnect>>

\* socket.on("session_confirm")
SessionConfirm(sessionID) ==
    /\ Tick
    /\ socketRef = SocketOpen /\ link
    /\ sessionRef' = confirmSession(sessionRef, sessionID)
    /\ IF Truthy(sendOnConnect)
       THEN /\ wire' = utterEmit(Append(wire, InConfirm(sessionID)), socketRef,
                                 confirmSession(sessionRef, sessionID),
                                 sendOnConnect.value, "sendOnConnect")
            /\ status' = utterStatus(status)
            /\ msgs' = Append(msgs, userMessage(sendOnConnect.value))
            /\ history' = appendMessage(history, uuidv4(nextId))
            /\ nextId' = nextId + 1
            /\ lastOp' = Op("session_confirm", nextId, 0, FALSE,
                            <<"setSession">> \o utterSteps(socketRef))
       ELSE /\ wire' = Append(wire, InConfirm(sessionID))
            /\ lastOp' = Op("session_confirm", 0, 0, FALSE, <<"setSession">>)
            /\ UNCHANGED <<status, msgs, history, nextId>>
    /\ UNCHANGED <<socketRef, link, sendOnConnect>>

\* socket.on("bot_uttered")
BotUttered(message) ==
    /\ Tick
    /\ Cardinality({id \in 1..Len(msgs) : msgs[id].received}) < MaxBot
    /\ socketRef = SocketOpen /\ link
    /\ msgs' = Append(msgs, botResponse(message))
    /\ history' = appendMessage(history, uuidv4(nextId))
    /\ nextId' = nextId + 1
    /\ status' = Connected
    /\ lastOp' = Op("bot_uttered", nextId, 0, FALSE, <<"setHistory:append", "setStatus">>)
    /\ UNCHANGED <<socketRef, sessionRef, link, sendOnConnect, wire>>

\* mutant: a disconnect forgets the session
Disconnect_clearsSession ==
    /\ Tick
    /\ socketRef = SocketOpen /\ link
    /\ link' = FALSE
    /\ status' = Disconnected
    /\ sessionRef' = NoSession
    /\ lastOp' = Op("disconnect", 0, 0, FALSE, <<"setStatus">>)
    /\ UNCHANGED <<history, msgs, nextId, socketRef, sendOnConnect, wire>>

\* socket.on("disconnect")
Disconnect ==
    /\ Tick
    /\ socketRef = SocketOpen /\ link
    /\ link' = FALSE
    /\ status' = Disconnected
    /\ lastOp' = Op("disconnect", 0, 0, FALSE, <<"setStatus">>)
    /\ UNCHANGED <<history, msgs, nextId, socketRef, sessionRef, sendOnConnect, wire>>

\* socket.on("error")
Error ==
    /\ Tick
    /\ socketRef = SocketOpen
    /\ status' = ErrorStatus
    /\ lastOp' = Op("error", 0, 0, FALSE, <<"setStatus">>)
    /\ UNCHANGED <<history, msgs, nextId, socketRef, sessionRef, link, sendOnConnect, wire>>

\* the onClick callback of option i1 of the quick-reply message `id`; the
\* callback stays callable after the message left the history
Click(id, i1) ==
    /\ Tick
    /\ id \in 1..Len(msgs) /\ i1 \in 1..Len(msgs[id].quick_replies)
    /\ msgs[id].quick_replies[i1].onClick
    /\ LET payload == msgs[id].quick_replies[i1].payload
           h1 == appendMessage(history, uuidv4(nextId))
           m1 == Append(msgs, userMessage(payload))
           index == findIndex(h1, id)
       IN /\ wire' = utterEmit(wire, socketRef, sessionRef, payload, "click")
          /\ status' = utterStatus(status)
          /\ nextId' = nextId + 1
          /\ IF StartsWithSlash(payload)
             THEN IF index = 0
                  THEN /\ history' = h1
                       /\ msgs' = m1
                       /\ lastOp' = Op("click", id, i1, TRUE,
                                       utterSteps(socketRef) \o <<"setHistory:throw">>)
                  ELSE /\ history' = h1
                       /\ msgs' = [m1 EXCEPT
                                     ![h1[index]].quick_replies = markClicked(@, i1),
                                     ![h1[index]].clicked = TRUE]
                       /\ lastOp' = Op("click", id, i1, FALSE,
                                       utterSteps(socketRef) \o <<"setHistory:mark">>)
             ELSE /\ history' = filterOut(h1, id)
                  /\ msgs' = m1
                  /\ lastOp' = Op("click", id, i1, FALSE,
                                  utterSteps(socketRef) \o <<"setHistory:filter">>)
    /\ UNCHANGED <<socketRef, sessionRef, link, sendOnConnect>>

\* the cleanup of useEffect: socket.disconnect()
Cleanup ==
    /\ Tick
    /\ socketRef = SocketOpen
    /\ socketRef' = SocketClosed
    /\ link' = FALSE
    /\ lastOp' = Op("cleanup", 0, 0, FALSE, <<"socket.disconnect">>)
    /\ UNCHANGED <<status, history, msgs, nextId, sessionRef, sendOnConnect, wire>>

\* the onClick callbacks created so far: <<message id, option index>>
Callbacks ==
    UNION {{<<id, i1>> : i1 \in {k \in 1..Len(msgs[id].quick_replies) :
                                   msgs[id].quick_replies[k].onClick}} :
              id \in 1..Len(msgs)}

Next ==
    \/ Mount
    \/ Connect
    \/ \E message \in UtterPayloads : Utter(message)
    \/ \E sessionID \in Tokens : SessionConfirm(sessionID)
    \/ \E message \in BotPayloads : BotUttered(message)
    \/ Disconnect
    \/ Error
    \/ \E c \in Callbacks : Click(c[1], c[2])
    \/ Cleanup

Spec == Init /\ [][Next]_vars

\* ---- helpers of the properties ----
InHistory(h, id) == \E k \in 1..Len(h) : h[k] = id
Without(h, id) == SelectSeq(h, LAMBDA x : x # id)
IsCommandPayload(p) == p # <<>> /\ Head(p) = "/"
ClickedOptions(m) == {k \in 1..Len(m.quick_replies) : m.quick_replies[k].clicked}
\* this step ran the handler `name`
Ran(name) == nsteps' # nsteps /\ lastOp'.name = name
ClickedPayload == msgs[lastOp'.target].quick_replies[lastOp'.opt].payload
\* every message object other than `id` that existed before the step is untouched
OthersUntouched(id) == \A j \in 1..Len(msgs) : j # id => msgs'[j] = msgs[j]

\* C1: a click on an option of a quick-reply message that is in the history
\* keeps the message in place, marked clicked, when the payload starts with
\* "/", and removes the message when it does not; all other entries stay in
\* place and unchanged (the utterance of the payload is appended behind them).
C1_ClickKeepsOrRemoves ==
    [][(Ran("click") /\ InHistory(history, lastOp'.target)) =>
         LET id == lastOp'.target
         IN /\ OthersUntouched(id)
            /\ IF IsCommandPayload(ClickedPayload)
               THEN /\ history' = Append(history, nextId)
                    /\ msgs'[id].clicked
                    /\ msgs'[id].quick_replies[lastOp'.opt].clicked
               ELSE /\ ~InHistory(history', id)
                    /\ history' = Append(Without(history, id), nextId)]_vars

\* C1 witness: an utterance, a quick-reply message, then one click on a
\* non-command option: the group is gone, the utterances are in place.
C1_Witness ==
    /\ lastOp.name = "click" /\ lastOp.target = 2 /\ Len(msgs) = 3
    /\ msgs[1].text = Hello /\ msgs[2].hasQR
    /\ ~IsCommandPayload(msgs[2].quick_replies[lastOp.opt].payload)
    /\ history = <<1, 3>>

\* C2: after any click on an option of a quick-reply group, exactly one
\* option of the group has clicked = true and the group has clicked = true.
C2_ExactlyOneClicked ==
    lastOp.name = "click" =>
        /\ msgs[lastOp.target].clicked
        /\ Cardinality(ClickedOptions(msgs[lastOp.target])) = 1

\* C3 (as stated): a click on a group that is already resolved changes
\* neither the marked option nor the history, and emits nothing.
C3_SecondClickNoOp ==
    [][(Ran("click") /\ msgs[lastOp'.target].clicked) =>
         /\ msgs'[lastOp'.target] = msgs[lastOp'.target]
         /\ history' = history
         /\ wire' = wire]_vars

\* C3 (amended): a click on a resolved group that is still in the history
\* keeps the group flag and exactly one marked option, namely, for a command
\* payload, the option clicked now; it is no no-op: it emits one more
\* user_uttered with the payload and appends one more Text entry (and a
\* non-command payload removes the group).
C3_SecondClickReresolves ==
    [][(Ran("click") /\ msgs[lastOp'.target].clicked
          /\ InHistory(history, lastOp'.target)) =>
         LET id == lastOp'.target
         IN /\ msgs'[id].clicked
            /\ Cardinality(ClickedOptions(msgs'[id])) = 1
            /\ IsCommandPayload(ClickedPayload) =>
                  (ClickedOptions(msgs'[id]) = {lastOp'.opt} /\ InHistory(history', id))
            /\ ~IsCommandPayload(ClickedPayload) =>
                  (msgs'[id] = msgs[id] /\ ~InHistory(history', id))
            /\ Len(wire') = Len(wire) + 1
            /\ wire'[Len(wire')].event = "user_uttered"
            /\ wire'[Len(wire')].message = ClickedPayload
            /\ Len(msgs') = Len(msgs) + 1
            /\ msgs'[Len(msgs')].text = ClickedPayload
            /\ history'[Len(history')] = Len(msgs')]_vars

\* C3 witness: a second command click moved the mark from option 1 to option 2.
C3_Witness ==
    /\ lastOp.name = "click" /\ lastOp.opt = 2 /\ ~lastOp.threw
    /\ Len(msgs) = 3 /\ msgs[1].hasQR /\ msgs[1].clicked
    /\ msgs[2].text = msgs[1].quick_replies[1].payload
    /\ IsCommandPayload(msgs[2].text)
    /\ ClickedOptions(msgs[1]) = {2}
    /\ history = <<1, 2, 3>>

\* effect a comes before effect b in the program order of a handler
Precedes(steps, a, b) ==
    \E i, j \in 1..Len(steps) : i < j /\ steps[i] = a /\ steps[j] = b
Confirms == {j \in 1..Len(wire) : wire[j].event = "session_confirm"}
Uttered == {j \in 1..Len(wire) : wire[j].event = "user_uttered"}
\* the last session_confirm on the wire before position j
LastConfirmBefore(j) ==
    CHOOSE i \in Confirms : i < j /\ \A k \in Confirms : k < j => k <= i

\* C4 (as stated): utter(p) appends one Text message with received = false
\* and text p at the end of the history, sets the status to
\* waitingForResponse, and the append comes before the emit of user_uttered.
C4_AppendBeforeEmit ==
    lastOp.name = "utter" =>
        /\ status = WaitingForResponse
        /\ history # <<>> /\ history[Len(history)] = lastOp.target
        /\ msgs[lastOp.target].type = TypeText /\ ~msgs[lastOp.target].received
        /\ (\E k \in 1..Len(lastOp.steps) : lastOp.steps[k] = "emit") =>
              Precedes(lastOp.steps, "setHistory:append", "emit")

\* C4 (amended): utter(p) appends exactly one Text message with
\* received = false and text p at the end of the history and sets the status
\* to waitingForResponse; user_uttered for p is emitted before the append,
\* not after it, and only when the socket has been created.
C4_UtterEmitsThenAppends ==
    [][Ran("utter") =>
         LET id == lastOp'.target
         IN /\ history' = Append(history, id)
            /\ Len(msgs') = Len(msgs) + 1 /\ id = Len(msgs')
            /\ OthersUntouched(id)
            /\ msgs'[id].type = "text" /\ msgs'[id].received = FALSE
            /\ msgs'[id].hasText /\ msgs'[id].text \in UtterPayloads
            /\ status' = "waitingForResponse"
            /\ socketRef = NoSocket => wire' = wire
            /\ socketRef # NoSocket =>
                  /\ Len(wire') = Len(wire) + 1
                  /\ SubSeq(wire', 1, Len(wire)) = wire
                  /\ wire'[Len(wire')].event = "user_uttered"
                  /\ wire'[Len(wire')].message = msgs'[id].text
                  /\ Precedes(lastOp'.steps, "emit", "setHistory:append")
                  /\ ~Precedes(lastOp'.steps, "setHistory:append", "emit")]_vars

\* C4 witness: an utterance on a connected socket, behind an earlier entry.
C4_Witness ==
    /\ lastOp.name = "utter" /\ lastOp.from = Connected
    /\ Len(history) = 2 /\ history[2] = lastOp.target
    /\ wire # <<>> /\ wire[Len(wire)].event = "user_uttered"
    /\ wire[Len(wire)].message = Hello
    /\ status = WaitingForResponse

\* C5: every user_uttered emitted after a session_confirm carries the token
\* of the latest session_confirm before it, whatever happened in between.
C5_SessionIdFollowsConfirm ==
    \A j \in Uttered :
        (\E i \in Confirms : i < j) =>
            wire[j].session_id = wire[LastConfirmBefore(j)].session_id

\* C5 witness: confirm "abc", a disconnect, then an utterance carrying "abc".
C5_Witness ==
    /\ lastOp.name = "utter" /\ lastOp.from = Disconnected
    /\ \E i \in Confirms : wire[i].session_id = "abc"
    /\ wire[Len(wire)].event = "user_uttered"
    /\ wire[Len(wire)].session_id = "abc"

SendOnConnectConfigured == sendOnConnect.given /\ sendOnConnect.value # <<>>
Programmatic == {j \in 1..Len(wire) : wire[j].via = "sendOnConnect"}
GreetEntries ==
    {id \in 1..Len(msgs) : ~msgs[id].received /\ msgs[id].type = "text"
                             /\ msgs[id].text = sendOnConnect.value}

\* C6: with a (non-empty) sendOnConnect s, the programmatic utterance of s is
\* emitted only directly after a session_confirm was handled and carries its
\* token; after one session_confirm(t) there is exactly one such
\* user_uttered {t, s} and exactly one user-authored Text entry for it.
C6_SendOnConnectAfterConfirm ==
    SendOnConnectConfigured =>
        /\ \A j \in Programmatic :
              /\ j > 1 /\ (j - 1) \in Confirms
              /\ wire[j].event = "user_uttered"
              /\ wire[j].session_id = wire[j - 1].session_id
              /\ wire[j].message = sendOnConnect.value
        /\ Confirms = {} => (Programmatic = {} /\ GreetEntries = {})
        /\ Cardinality(Confirms) = 1 =>
              /\ Cardinality(Programmatic) = 1
              /\ Cardinality(GreetEntries) = 1
              /\ \A id \in GreetEntries :
                    Cardinality({k \in 1..Len(history) : history[k] = id}) = 1

\* C6 witness: connect, session_confirm("abc"), the greeting went out.
C6_Witness ==
    /\ SendOnConnectConfigured
    /\ lastOp.name = "session_confirm"
    /\ Len(wire) = 3 /\ wire[1].event = "session_request"
    /\ wire[2].event = "session_confirm" /\ wire[2].session_id = "abc"
    /\ wire[3].event = "user_uttered" /\ wire[3].session_id = "abc"
    /\ wire[3].message = Greet
    /\ history = <<1>> /\ msgs[1].text = Greet

\* C7 (as stated): a click on an option of a message that is not in the
\* history always fails with a thrown error.
C7_AbsentClickAlwaysThrows ==
    [][(Ran("click") /\ ~InHistory(history, lastOp'.target)) => lastOp'.threw]_vars

\* C7 (amended): a click on an option of a message that is not in the history
\* fails with a thrown error exactly when the payload starts with "/"; with
\* any other payload it does not fail and the history stays without the
\* message.  A click on a message that is in the history never throws.
C7_AbsentClickThrowsIffCommand ==
    [][Ran("click") =>
         /\ ~InHistory(history, lastOp'.target) =>
               /\ lastOp'.threw <=> IsCommandPayload(ClickedPayload)
               /\ ~InHistory(history', lastOp'.target)
         /\ InHistory(history, lastOp'.target) => ~lastOp'.threw]_vars

\* C7 witness: a command click on a group that an earlier click removed.
C7_Witness ==
    /\ lastOp.name = "click" /\ lastOp.threw
    /\ ~InHistory(history, lastOp.target)
    /\ IsCommandPayload(msgs[lastOp.target].quick_replies[lastOp.opt].payload)

\* C8: after the cleanup has disconnected the socket, no handler and no call
\* changes the status, the session or the history, or emits anything.
C8_NothingAfterShutdown ==
    [][socketRef = SocketClosed =>
         /\ status' = status /\ sessionRef' = sessionRef
         /\ history' = history /\ msgs' = msgs /\ wire' = wire]_vars

\* C9: the disconnect handler sets the status to disconnected, from
\* waitingForResponse as from any other status, and leaves the history, its
\* messages and the session token as they are.
C9_DisconnectFrame ==
    [][Ran("disconnect") =>
         /\ status' = "disconnected"
         /\ history' = history /\ msgs' = msgs
         /\ sessionRef' = sessionRef]_vars

\* C9 witness: a disconnect while waiting for the response to an utterance.
C9_Witness ==
    /\ lastOp.name = "disconnect" /\ lastOp.from = WaitingForResponse
    /\ status = Disconnected /\ history # <<>> /\ sessionRef \in Tokens

\* C10: only session_confirm changes the session token, and every connect
\* event emits exactly one session_request carrying the token known then
\* (undefined before the first confirm).
C10_TokenRetainedAndRequested ==
    [][/\ sessionRef' # sessionRef => Ran("session_confirm")
       /\ Ran("connect") =>
             /\ Len(wire') = Len(wire) + 1
             /\ SubSeq(wire', 1, Len(wire)) = wire
             /\ wire'[Len(wire')].event = "session_request"
             /\ wire'[Len(wire')].session_id = sessionRef]_vars

\* C10 witness: a reconnection after a disconnect re-sends the token "abc".
C10_Witness ==
    /\ lastOp.name = "connect" /\ lastOp.from = Disconnected
    /\ sessionRef = "abc"
    /\ Cardinality({j \in 1..Len(wire) : wire[j].event = "session_request"}) = 2
    /\ wire[Len(wire)].session_id = "abc"

\* C11: the kind of every message built from a bot_uttered payload follows
\* the strict priority attachment, quick_replies, text, unknown over the
\* fields present in the payload, for every combination of present and
\* absent fields, and the classification never throws.
C11_ClassifierPriority ==
    /\ \A id \in 1..Len(msgs) :
          msgs[id].received =>
             msgs[id].type =
                CASE msgs[id].hasAttachment -> "attachment"
                  [] ~msgs[id].hasAttachment /\ msgs[id].hasQR -> "quick_reply"
                  [] ~msgs[id].hasAttachment /\ ~msgs[id].hasQR /\ msgs[id].hasText -> "text"
                  [] OTHER -> "unknown"
    /\ lastOp.name = "bot_uttered" => ~lastOp.threw

\* C11 witness: a payload with attachment, quick_replies and text was
\* classified, and so was one with none of the three.
C11_Witness ==
    /\ lastOp.name = "bot_uttered" /\ Len(msgs) = 2
    /\ msgs[1].hasAttachment /\ msgs[1].hasQR /\ msgs[1].hasText
    /\ msgs[1].type = TypeAttachment
    /\ ~msgs[2].hasAttachment /\ ~msgs[2].hasQR /\ ~msgs[2].hasText
    /\ msgs[2].type = TypeUnknown

\* C12: the ids in the history are pairwise distinct at all times, and an id
\* that enters the history was never the id of an earlier message, removed
\* or not.
C12_UniqueIds ==
    [][/\ \A i, j \in 1..Len(history') : i # j => history'[i] # history'[j]
       /\ \A k \in 1..Len(history') :
             InHistory(history, history'[k]) \/ history'[k] \notin 1..Len(msgs)]_vars

\* C12 witness: message 1 was removed by a click and a later utterance got a
\* new id.
C12_Witness ==
    /\ lastOp.name = "utter" /\ lastOp.target = 3
    /\ Len(msgs) = 3 /\ msgs[1].hasQR /\ history = <<2, 3>>

\* C13: a click that fails because its message is absent from the history
\* emits no user_uttered, appends no Text entry and leaves the status
\* unchanged.
C13_FailedClickHasNoEffect ==
    [][(Ran("click") /\ lastOp'.threw) =>
         /\ wire' = wire
         /\ history' = history /\ msgs' = msgs
         /\ status' = status]_vars

\* C14: no state of the history shows a quick-reply message in the
\* half-resolved state of a non-command click, marked clicked on its way to
\* removal: a message in the history that is marked clicked is marked on
\* command options only, and a non-command click leaves the message object
\* unmarked as it was and the history without it.
C14_NoHalfResolvedMessage ==
    /\ \A k \in 1..Len(history) :
          \A i \in ClickedOptions(msgs[history[k]]) :
             IsCommandPayload(msgs[history[k]].quick_replies[i].payload)
    /\ \A k \in 1..Len(history) :
          msgs[history[k]].clicked => ClickedOptions(msgs[history[k]]) # {}
    /\ (lastOp.name = "click"
          /\ ~IsCommandPayload(msgs[lastOp.target].quick_replies[lastOp.opt].payload)) =>
             /\ ~InHistory(history, lastOp.target)
             /\ \A i \in ClickedOptions(msgs[lastOp.target]) : i # lastOp.opt

\* C14 witness: a non-command click between inbound events: the group went
\* from unmarked in the history to unmarked out of it, and a bot message
\* came in after the click.
C14_Witness ==
    /\ lastOp.name = "bot_uttered" /\ Len(msgs) = 3
    /\ msgs[1].hasQR /\ ~msgs[1].clicked /\ ClickedOptions(msgs[1]) = {}
    /\ msgs[2].text = TxtPayload /\ ~msgs[2].received
    /\ history = <<2, 3>>

\* C15: no step reorders the history: the entries that stay keep their
\* relative order and every new entry is added behind all of them.
C15_OrderPreserved ==
    [][history' = SelectSeq(history, LAMBDA x : InHistory(history', x))
                  \o SelectSeq(history', LAMBDA x : ~InHistory(history, x))]_vars

\* C15 witness: the first of two bot messages was removed by a click; the
\* second one and the new utterance follow in their order of arrival.
C15_Witness ==
    /\ lastOp.name = "click" /\ lastOp.target = 1 /\ Len(msgs) = 3
    /\ msgs[2].received /\ ~msgs[3].received
    /\ history = <<2, 3>>

\* the kind the fields of a message call for
KindOf(m) ==
    IF m.hasAttachment THEN "attachment"
    ELSE IF m.hasQR THEN "quick_reply"
    ELSE IF m.hasText THEN "text" ELSE "unknown"

\* C16: a bot_uttered event appends exactly one message at the end of the
\* history, with received = true, the kind of the classifier and every
\* option unclicked; it leaves the earlier entries unchanged, emits nothing
\* and sets the status to connected.
C16_BotUtteredAppends ==
    [][Ran("bot_uttered") =>
         LET id == lastOp'.target
         IN /\ id = Len(msgs) + 1 /\ Len(msgs') = id
            /\ history' = Append(history, id)
            /\ OthersUntouched(id)
            /\ msgs'[id].received = TRUE
            /\ msgs'[id].type = KindOf(msgs'[id])
            /\ ClickedOptions(msgs'[id]) = {} /\ ~msgs'[id].clicked
            /\ status' = "connected"
            /\ wire' = wire]_vars

\* C16 witness: the answer to an utterance, a quick-reply group of two
\* unclicked options, arrives while waiting for the response.
C16_Witness ==
    /\ lastOp.name = "bot_uttered" /\ lastOp.from = WaitingForResponse
    /\ status = Connected /\ history = <<1, 2>>
    /\ ~msgs[1].received /\ msgs[2].received
    /\ msgs[2].type = TypeQuickReply /\ Len(msgs[2].quick_replies) = 2
    /\ ClickedOptions(msgs[2]) = {}

C18_ErrorIsTerminal ==
    [][/\ Ran("error") => status' = "error"
       /\ ((Ran("utter") \/ Ran("click")) /\ status = "error") =>
             status' # "waitingForResponse"]_vars

\* C18 (amended): a transport error event sets the status to error from any
\* status, but error is not terminal for utterances: an utter call or a
\* click sets the status to waitingForResponse from error as from any other
\* status.
C18_UtterLeavesError ==
    [][/\ Ran("error") => status' = "error"
       /\ (Ran("utter") \/ Ran("click")) => status' = "waitingForResponse"]_vars

\* C18 witness: an utterance made in status error.
C18_Witness ==
    /\ lastOp.name = "utter" /\ lastOp.from = ErrorStatus
    /\ status = WaitingForResponse

\* the options of message id that carry an onClick callback
Clickable(id) ==
    {k \in 1..Len(msgs[id].quick_replies) : msgs[id].quick_replies[k].onClick}

\* C19 (as stated): only messages of kind quick_reply carry clickable
\* options, and every option of a quick_reply message is clickable.
C19_CallbacksIffQuickReplyKind ==
    \A id \in 1..Len(msgs) :
        /\ Clickable(id) # {} => msgs[id].type = "quick_reply"
        /\ msgs[id].type = "quick_reply" =>
              Clickable(id) = 1..Len(msgs[id].quick_replies)

\* C19 (amended): callbacks follow the quick_replies field, not the kind:
\* every option of every message is clickable, options exist only on
\* messages whose payload had a quick_replies field, so never on kind text
\* or unknown, but a message of kind attachment whose payload also had
\* quick_replies carries them.
C19_CallbacksIffQuickRepliesField ==
    \A id \in 1..Len(msgs) :
        /\ Clickable(id) = 1..Len(msgs[id].quick_replies)
        /\ Clickable(id) # {} => (msgs[id].hasQR /\ msgs[id].received)
        /\ msgs[id].type \in {"text", "unknown"} => Clickable(id) = {}
        /\ msgs[id].type = "quick_reply" => msgs[id].hasQR
        /\ (msgs[id].hasQR /\ msgs[id].hasAttachment) => msgs[id].type = "attachment"

\* C19 witness: an option of a message of kind attachment was clicked.
C19_Witness ==
    /\ lastOp.name = "click" /\ ~lastOp.threw
    /\ msgs[lastOp.target].type = TypeAttachment
    /\ Clickable(lastOp.target) = {1, 2}

\* C20: with a (non-empty) sendOnConnect, every session_confirm on the wire
\* is directly followed by one programmatic user_uttered carrying its token,
\* so k confirms give exactly k such events and k user-authored Text entries
\* in the history.
C20_OneGreetingPerConfirm ==
    SendOnConnectConfigured =>
        /\ \A j \in Confirms :
              /\ j < Len(wire) /\ (j + 1) \in Programmatic
              /\ wire[j + 1].event = "user_uttered"
              /\ wire[j + 1].session_id = wire[j].session_id
              /\ wire[j + 1].message = sendOnConnect.value
        /\ Cardinality(Programmatic) = Cardinality(Confirms)
        /\ Cardinality(GreetEntries) = Cardinality(Confirms)
        /\ \A id \in GreetEntries :
              Cardinality({k \in 1..Len(history) : history[k] = id}) = 1

\* C20 witness: two confirms with different tokens, two greetings.
C20_Witness ==
    /\ SendOnConnectConfigured
    /\ lastOp.name = "session_confirm"
    /\ Cardinality(Confirms) = 2 /\ Len(wire) = 5
    /\ wire[3].session_id = "abc" /\ wire[5].session_id = "xyz"
    /\ wire[5].via = "sendOnConnect"
    /\ history = <<1, 2>>

====
